---- MODULE Spec2Model ----
(***************************************************************************)
(* A model of django-oscar-stripe-sca: the facade that turns a basket      *)
(* into Stripe checkout-session parameters, the checkout views and the     *)
(* payment mixins.                                                         *)
(*                                                                         *)
(* Money is a decimal with three places, held as an integer number of      *)
(* thousandths ("mills"): 1005 is 1.005.  Python's None and the empty      *)
(* string are both written "" where only their truth value is read.        *)
(***************************************************************************)
EXTENDS Integers, Sequences, FiniteSets, TLC

VARIABLES
    settings,   \* the settings module: fixed for a run
    facade,     \* the Facade instance's attributes (self.__dict__)
    args,       \* the arguments of the facade call under study
    returned,   \* what the calls under study returned so far, oldest first
    ncalls,     \* how many facade calls were made so far
    app_config, \* the attributes of the checkout app config
    basket_status,    \* Basket.status of every basket
    stripe_sessions,  \* the provider's checkout sessions, in order of creation
    intents,          \* the status of each checkout session's payment intent
    captures,         \* who captured which payment intent, in order
    session,          \* each user's Django session
    orders,           \* the Order table
    payment_sources,  \* the payment Source table
    payment_events,   \* the PaymentEvent table
    inflight,         \* the requests being handled
    last,             \* the request answered last, with its response
    nreq              \* how many requests were received so far

facadeVars == <<settings, facade, args, returned, ncalls, app_config>>
dbVars == <<basket_status, orders, payment_sources, payment_events>>
stripeVars == <<stripe_sessions, intents, captures>>
flowVars == <<dbVars, stripeVars, session, inflight, last, nreq>>
vars == <<facadeVars, flowVars>>

\* ------------------------------------------------------------------ bounds
MaxLines == 2
MaxCalls == 3
MaxPrice == 2
MaxRequests == 3
MaxInflight == 2
MaxSessions == 2
MaxEvents == 2

\* --------------------------------------------------------------- constants
SESSION_MODE_PAYMENT == "payment"
PAYMENT_EVENT_PURCHASE == "Purchase"
PAYMENT_METHOD_STRIPE == "Stripe"
PAYMENT_METHOD_TYPE_CARD == "card"
CAPTURE_METHOD_MANUAL == "manual"
CAPTURE_METHOD_AUTOMATIC == "automatic"

ZERO_DECIMAL_CURRENCIES ==
    {"BIF", "CLP", "DJF", "GNF", "JPY", "KMF", "KRW", "MGA", "PYG", "RWF",
     "VND", "VUV", "XAF", "XOF", "XPF"}

\* ---------------------------------------------------------------- settings
\* The settings module the facade reads.  The URL overrides are unset ("")
\* or set, each to a URL of its own.
SettingsSpace ==
    { [STRIPE_BYPASS_ORDER_PREVIEW |-> bypass,
       STRIPE_WAIT_FOR_PAYMENT_CONFIRMATION |-> wait,
       STRIPE_COMPRESS_TO_ONE_LINE_ITEM |-> compress,
       STRIPE_USE_PRICES_API |-> pricesApi,
       STRIPE_ENABLE_TAX_COMPUTATION |-> tax,
       STRIPE_ENABLE_INVOICE_GENERATION |-> invoice,
       STRIPE_INVOICE_DISPLAY_TAX_AMOUNTS |-> TRUE,
       STRIPE_INVOICE_DESCRIPTION |-> "Thank you",
       STRIPE_INVOICE_FOOTER |-> "",
       STRIPE_RETURN_URL_BASE |-> "https://shop.example",
       STRIPE_CANCEL_URL |-> "",
       STRIPE_PAYMENT_STATUS_URL |-> "",
       STRIPE_ORDER_PREVIEW_URL |-> IF custom THEN "https://front.example/preview" ELSE "",
       STRIPE_WAITING_FOR_PAYMENT_URL |-> IF custom THEN "https://front.example/waiting" ELSE "",
       STRIPE_ORDER_CONFIRMATION_URL |-> IF custom THEN "https://front.example/thanks" ELSE "",
       STRIPE_DEFAULT_PRODUCT_TAX_CODE |-> "txcd_99999999",
       STRIPE_DEFAULT_SHIPPING_TAX_CODE |-> "txcd_92010001",
       STRIPE_WEBHOOK_ENDPOINT_SECRET |-> "whsec"] :
      bypass \in BOOLEAN, wait \in BOOLEAN, compress \in BOOLEAN,
      pricesApi \in BOOLEAN, tax \in BOOLEAN, invoice \in BOOLEAN,
      custom \in BOOLEAN }

\* ------------------------------------------------------------ input space
CurrencyCodes == {"USD", "usd", "EUR", "JPY", "jpy", "Jpy", "KRW", "xpf"}

\* Prices 0.000 .. MaxPrice.000 in steps of 0.001.
Prices == 0 .. (MaxPrice * 1000)

\* A basket line: its product's title and its price breakdown, a list of
\* (price_incl_tax, quantity) pairs (discounted and non-discounted parts).
LinePool ==
    { [title |-> "Book", breakdown |-> << <<1005, 1>> >>],
      [title |-> "Pen",  breakdown |-> << <<2500, 2>>, <<1995, 1>> >>] }

LineLists == UNION { [1 .. n -> LinePool] : n \in 0 .. MaxLines }

NoMethod == [code |-> "", name |-> "", charge |-> 0]
NoShippingRequired == [code |-> "no-shipping-required", name |-> "No shipping required", charge |-> 0]
Standard == [code |-> "standard", name |-> "Standard", charge |-> 4995]
ShippingMethods == {NoShippingRequired, Standard}

NoVouchers == << >>
VoucherLists == { NoVouchers, << [name |-> "SPRING", discount |-> 505] >> }

FacadeBaskets ==
    { [id |-> i, lines |-> ls, currency |-> c, shipping_required |-> sr,
       vouchers |-> IF Len(ls) = MaxLines THEN << [name |-> "SPRING", discount |-> 505] >>
                    ELSE NoVouchers] :
      i \in 1 .. 2, ls \in LineLists, c \in {"USD", "JPY"}, sr \in BOOLEAN }

\* ------------------------------------------------------------ arithmetic
Abs(n) == IF n < 0 THEN -n ELSE n
Sign(n) == IF n < 0 THEN -1 ELSE 1

\* str.upper on the currency codes in use.
upper(s) ==
    CASE s = "usd" -> "USD"
      [] s = "jpy" -> "JPY"
      [] s = "Jpy" -> "JPY"
      [] s = "xpf" -> "XPF"
      [] OTHER -> s

\* Decimal.quantize(exp, ROUND_HALF_UP): the multiple of `step` mills that
\* is nearest to `mills`, a tie going away from zero.
quantize_bad(mills, step) == Sign(mills) * (Abs(mills) \div step) * step
quantize(mills, step) ==
    Sign(mills) * ((2 * Abs(mills) + step) \div (2 * step)) * step

\* int(Decimal): truncation toward zero of a value in mills.
int(mills) == Sign(mills) * (Abs(mills) \div 1000)

_convert_to_cents(price, currency) ==
    IF upper(currency) \in ZERO_DECIMAL_CURRENCIES
    THEN int(quantize(price, 1000))
    ELSE int(quantize(price, 10) * 100)

\* ------------------------------------------------------------ the facade
\* A return value or the exception raised: error is "" when none was.
Ok(v) == [error |-> "", value |-> v]
Raise(e, empty) == [error |-> e, value |-> empty]

\* dict.update: the keys of `e` win.
update(d, e) == e @@ d

NewFacade == [stripe_client |-> "StripeClient", logger |-> "logger"]

PaymentItem(title, price_incl_tax, price_currency, quantity, tax_code) ==
    [title |-> title, price_incl_tax |-> price_incl_tax,
     price_currency |-> price_currency, quantity |-> quantity,
     tax_code |-> tax_code]

_get_checkout_step_url(base_url, step_name, basket_id) ==
    IF base_url # ""
    THEN [base |-> base_url, route |-> "", basket_id |-> 0]
    ELSE [base |-> settings.STRIPE_RETURN_URL_BASE,
          route |-> step_name, basket_id |-> basket_id]

_get_cancel_url(basket) ==
    _get_checkout_step_url(settings.STRIPE_CANCEL_URL, "checkout:stripe-cancel", basket.id)

_get_order_confirmation_url ==
    _get_checkout_step_url(settings.STRIPE_ORDER_CONFIRMATION_URL, "checkout:thank-you", 0)

_get_payment_status_url ==
    _get_checkout_step_url(settings.STRIPE_PAYMENT_STATUS_URL, "checkout:stripe-payment-status", 0)

_get_waiting_for_payment_url ==
    _get_checkout_step_url(settings.STRIPE_WAITING_FOR_PAYMENT_URL, "checkout:stripe-waiting", 0)

_get_order_preview_url(basket) ==
    _get_checkout_step_url(settings.STRIPE_ORDER_PREVIEW_URL, "checkout:stripe-preview", basket.id)

_get_success_url_bad(basket) ==
    IF settings.STRIPE_WAIT_FOR_PAYMENT_CONFIRMATION
    THEN _get_waiting_for_payment_url
    ELSE IF ~settings.STRIPE_BYPASS_ORDER_PREVIEW
         THEN _get_order_preview_url(basket)
         ELSE _get_order_confirmation_url
_get_success_url(basket) ==
    IF ~settings.STRIPE_BYPASS_ORDER_PREVIEW
    THEN _get_order_preview_url(basket)
    ELSE IF settings.STRIPE_WAIT_FOR_PAYMENT_CONFIRMATION
         THEN _get_waiting_for_payment_url
         ELSE _get_order_confirmation_url

_get_capture_method_bad == CAPTURE_METHOD_AUTOMATIC
_get_capture_method ==
    IF settings.STRIPE_BYPASS_ORDER_PREVIEW
    THEN CAPTURE_METHOD_AUTOMATIC
    ELSE CAPTURE_METHOD_MANUAL

_get_invoice_session_params ==
    [invoice_creation |->
        [enabled |-> TRUE,
         invoice_data |->
            [account_tax_ids |-> "", custom_fields |-> "",
             description |-> settings.STRIPE_INVOICE_DESCRIPTION,
             footer |-> settings.STRIPE_INVOICE_FOOTER,
             issuer |-> "", metadata |-> "",
             rendering_options |->
                [amount_tax_display |->
                    IF settings.STRIPE_INVOICE_DISPLAY_TAX_AMOUNTS
                    THEN "include_inclusive_tax" ELSE "exclude_tax"]]]]

_get_tax_session_params == [automatic_tax |-> [enabled |-> TRUE]]

build_session_params(basket, customer_email, session_line_items, session_metadata) ==
    LET session_params ==
            [mode |-> SESSION_MODE_PAYMENT,
             customer_email |-> customer_email,
             payment_method_types |-> <<PAYMENT_METHOD_TYPE_CARD>>,
             line_items |-> session_line_items,
             metadata |-> session_metadata,
             success_url |-> _get_success_url(basket),
             cancel_url |-> _get_cancel_url(basket),
             payment_intent_data |->
                [capture_method |-> _get_capture_method,
                 metadata |-> session_metadata]]
        with_tax ==
            IF settings.STRIPE_ENABLE_TAX_COMPUTATION
            THEN update(session_params, _get_tax_session_params)
            ELSE session_params
    IN  IF settings.STRIPE_ENABLE_INVOICE_GENERATION
        THEN update(with_tax, _get_invoice_session_params)
        ELSE with_tax

\* ", ".join(f"{name} ({discount})" ...): the list of the joined parts.
_get_discount_metadata(basket) ==
    [k \in 1 .. Len(basket.vouchers) |->
        <<basket.vouchers[k].name, basket.vouchers[k].discount>>]

NoMetadata == [scs |-> "", basket_id |-> 0, shipping_method |-> "", discounts |-> << >>]

build_session_metadata(basket, shipping_method, session_line_items) ==
    IF shipping_method = NoMethod
    THEN Raise("AttributeError", NoMetadata)
    ELSE Ok([scs |-> "oscar",
             basket_id |-> basket.id,
             shipping_method |-> shipping_method.code,
             discounts |-> _get_discount_metadata(basket)])

_prepare_line_item(name, amount, currency, quantity, tax_code) ==
    IF settings.STRIPE_USE_PRICES_API
    THEN [price_data |->
            [product_data |->
                IF tax_code # "" /\ settings.STRIPE_ENABLE_TAX_COMPUTATION
                THEN [name |-> name, tax_code |-> tax_code]
                ELSE [name |-> name],
             currency |-> currency,
             unit_amount |-> amount],
          quantity |-> quantity]
    ELSE [name |-> name, amount |-> amount, currency |-> currency,
          quantity |-> quantity]

_get_default_product_tax_code == settings.STRIPE_DEFAULT_PRODUCT_TAX_CODE
_get_shipping_tax_code == settings.STRIPE_DEFAULT_SHIPPING_TAX_CODE
_get_product_tax_code(product) == settings.STRIPE_DEFAULT_PRODUCT_TAX_CODE

_choose_tax_code_bad(raw_line_items) ==
    IF Len(raw_line_items) = 0
    THEN Ok(_get_default_product_tax_code)
    ELSE Ok(raw_line_items[1].tax_code)
_choose_tax_code(raw_line_items) ==
    LET unique_tax_codes ==
            { raw_line_items[k].tax_code : k \in 1 .. Len(raw_line_items) }
        unique_tax_codes_count == Cardinality(unique_tax_codes)
    IN  IF unique_tax_codes_count = 0
        THEN Ok(_get_default_product_tax_code)
        ELSE IF unique_tax_codes_count = 1
             THEN Ok(CHOOSE c \in unique_tax_codes : TRUE)
             ELSE Raise("MultipleTaxCodesInBasketError", "")

prepare_line_items(raw_line_items, order_total) ==
    IF settings.STRIPE_COMPRESS_TO_ONE_LINE_ITEM
    THEN LET name == [k \in 1 .. Len(raw_line_items) |->
                        <<raw_line_items[k].quantity, raw_line_items[k].title>>]
             amount == _convert_to_cents(order_total.incl_tax, order_total.currency)
             tax_code == _choose_tax_code(raw_line_items)
         IN  IF tax_code.error # ""
             THEN Raise(tax_code.error, << >>)
             ELSE Ok(<< _prepare_line_item(name, amount, order_total.currency,
                                           1, tax_code.value) >>)
    ELSE Ok([k \in 1 .. Len(raw_line_items) |->
                _prepare_line_item(
                    << raw_line_items[k].title >>,
                    _convert_to_cents(raw_line_items[k].price_incl_tax,
                                      raw_line_items[k].price_currency),
                    raw_line_items[k].price_currency,
                    raw_line_items[k].quantity,
                    "")])

\* The raw items of one basket line, one per part of its price breakdown.
LineItems(basket, line) ==
    [k \in 1 .. Len(line.breakdown) |->
        PaymentItem(line.title, line.breakdown[k][1], basket.currency,
                    line.breakdown[k][2], _get_product_tax_code(line.title))]

RECURSIVE AllLineItems(_, _)
AllLineItems(basket, i) ==
    IF i > Len(basket.lines) THEN << >>
    ELSE LineItems(basket, basket.lines[i]) \o AllLineItems(basket, i + 1)

get_raw_line_items(self, basket, shipping_method) ==
    LET raw_line_items == AllLineItems(basket, 1)
    IN  IF basket.shipping_required /\ shipping_method # NoMethod
        THEN IF "shipping_method" \in DOMAIN self
             THEN Ok(Append(raw_line_items,
                        PaymentItem(self.shipping_method.name,
                                    shipping_method.charge, basket.currency, 1,
                                    _get_shipping_tax_code)))
             ELSE Raise("AttributeError", << >>)
        ELSE Ok(raw_line_items)

NoParams == [mode |-> ""]

\* The session parameters create_checkout_session hands to the provider,
\* or the exception raised while building them.
session_params_of(self, basket, order_total, shipping_method, customer_email) ==
    LET raw_line_items == get_raw_line_items(self, basket, shipping_method)
        session_line_items == prepare_line_items(raw_line_items.value, order_total)
        session_metadata ==
            build_session_metadata(basket, shipping_method, session_line_items.value)
    IN  IF raw_line_items.error # "" THEN Raise(raw_line_items.error, NoParams)
        ELSE IF session_line_items.error # ""
             THEN Raise(session_line_items.error, NoParams)
        ELSE IF session_metadata.error # ""
             THEN Raise(session_metadata.error, NoParams)
        ELSE Ok(build_session_params(basket, customer_email,
                    session_line_items.value, session_metadata.value))

\* The facade's attributes after a call: no method assigns to self.
facade_after_bad(self, basket, shipping_method) ==
    [a \in DOMAIN self \cup {"shipping_method"} |->
        IF a = "shipping_method" THEN shipping_method ELSE self[a]]
facade_after(self, basket, shipping_method) == self

\* ------------------------------------------------- order totals (mixins)
RECURSIVE SumBreakdown(_, _)
SumBreakdown(breakdown, k) ==
    IF k > Len(breakdown) THEN 0
    ELSE breakdown[k][1] * breakdown[k][2] + SumBreakdown(breakdown, k + 1)

RECURSIVE BasketTotal(_, _)
BasketTotal(basket, i) ==
    IF i > Len(basket.lines) THEN 0
    ELSE SumBreakdown(basket.lines[i].breakdown, 1) + BasketTotal(basket, i + 1)

\* get_order_totals: the basket's total plus the shipping charge; a zero
\* price in the basket's currency when the framework returns none.
get_order_totals(basket, shipping_charge) ==
    [incl_tax |-> BasketTotal(basket, 1) + shipping_charge,
     currency |-> basket.currency]

\* ================================================ facade specifications
DefaultSettings ==
    CHOOSE s \in SettingsSpace :
        /\ ~s.STRIPE_BYPASS_ORDER_PREVIEW
        /\ ~s.STRIPE_WAIT_FOR_PAYMENT_CONFIRMATION
        /\ ~s.STRIPE_COMPRESS_TO_ONE_LINE_ITEM
        /\ s.STRIPE_USE_PRICES_API
        /\ ~s.STRIPE_ENABLE_TAX_COMPUTATION
        /\ ~s.STRIPE_ENABLE_INVOICE_GENERATION
        /\ s.STRIPE_ORDER_PREVIEW_URL = ""

\* ------------------------------------------------------ the checkout flow
Users == {"ada", "bob"}
\* cy's basket is free of charge: cy checks out through the zero view only.
AllUsers == Users \cup {"cy"}
BasketIds == {1, 2, 3}

\* ada's basket needs no shipping, bob's does; cy's holds a free sample.
FlowBasket(b) ==
    IF b = 1
    THEN [id |-> 1, owner |-> "ada", currency |-> "USD", shipping_required |-> FALSE,
          lines |-> << [title |-> "Book", breakdown |-> << <<1005, 1>> >>] >>,
          vouchers |-> NoVouchers]
    ELSE IF b = 3
    THEN [id |-> 3, owner |-> "cy", currency |-> "USD", shipping_required |-> FALSE,
          lines |-> << [title |-> "Sample", breakdown |-> << <<0, 1>> >>] >>,
          vouchers |-> NoVouchers]
    ELSE [id |-> b, owner |-> "bob", currency |-> "USD", shipping_required |-> TRUE,
          lines |-> << [title |-> "Pen", breakdown |-> << <<2500, 2>>, <<1995, 1>> >>] >>,
          vouchers |-> NoVouchers]

NoEvent == [signature |-> "", type |-> "", intent |-> 0, basket_id |-> 0, shipping_method |-> ""]

\* django.urls.reverse: a URL is its base, its route name and its kwargs.
reverse(name) == [base |-> "", route |-> name, basket_id |-> 0]

NoResponse ==
    [n |-> 0, view |-> "", user |-> "", event |-> NoEvent, basket_id |-> 0,
     frozen |-> FALSE, status |-> 0, error |-> "", sources |-> << >>, events |-> << >>,
     placement |-> "none", payment_intent_id |-> 0, is_successful |-> FALSE,
     order_id |-> 0, location |-> reverse(""), provider_called |-> FALSE]

\* ---- the app config (apps.py)
\* The view attributes the framework's CheckoutConfig.ready() sets.
CheckoutConfigReady ==
    [index_view |-> "IndexView",
     shipping_address_view |-> "ShippingAddressView",
     user_address_update_view |-> "UserAddressUpdateView",
     user_address_delete_view |-> "UserAddressDeleteView",
     shipping_method_view |-> "ShippingMethodView",
     payment_method_view |-> "PaymentMethodView",
     payment_details_view |-> "PaymentDetailsView",
     thankyou_view |-> "ThankYouView"]

\* StripeSCACheckoutConfig.ready()
ready ==
    [zero_view |-> "StripeSCAZeroView",
     checkout_view |-> "StripeSCACheckoutView",
     cancel_view |-> "StripeSCACancelView",
     preview_view |-> "StripeSCAPreviewView",
     webhook_view |-> "StripeSCAWebhookView",
     waiting_view |-> "StripeSCAWaitingView",
     payment_status_view |-> "StripeSCAPaymentStatusView",
     thank_you_view |-> "StripeSCAThankYouView"] @@ CheckoutConfigReady

\* StripeSCACheckoutConfig.get_urls()
get_urls(self) ==
    << [name |-> "zero", view |-> self.zero_view],
       [name |-> "index", view |-> self.index_view],
       [name |-> "shipping-address", view |-> self.shipping_address_view],
       [name |-> "user-address-update", view |-> self.user_address_update_view],
       [name |-> "user-address-delete", view |-> self.user_address_delete_view],
       [name |-> "shipping-method", view |-> self.shipping_method_view],
       [name |-> "payment-method", view |-> self.checkout_view],
       [name |-> "payment-details", view |-> self.checkout_view],
       [name |-> "cancel", view |-> self.cancel_view],
       [name |-> "preview", view |-> self.preview_view],
       [name |-> "stripe-webhook", view |-> self.webhook_view],
       [name |-> "waiting", view |-> self.waiting_view],
       [name |-> "payment-status", view |-> self.payment_status_view],
       [name |-> "thank-you", view |-> self.thankyou_view] >>

RouteNames == { get_urls(ready)[k].name : k \in 1 .. Len(get_urls(ready)) }

\* The URL resolver: the first pattern with that name.
resolve(name) ==
    LET urls == get_urls(app_config)
        hits == { k \in 1 .. Len(urls) : urls[k].name = name }
    IN  urls[CHOOSE k \in hits : \A j \in hits : k <= j]

FlowInit ==
    /\ basket_status = [b \in BasketIds |-> "Open"]
    /\ stripe_sessions = << >>
    /\ intents = << >>
    /\ captures = << >>
    /\ session = [u \in AllUsers |-> [stripe_session_id |-> 0, checkout_order_id |-> 0,
                                       checkout_order_number |-> 0]]
    /\ orders = << >>
    /\ payment_sources = << >>
    /\ payment_events = << >>
    /\ inflight = {}
    /\ last = NoResponse
    /\ nreq = 0

FlowSettings ==
    { s \in SettingsSpace :
        /\ ~s.STRIPE_COMPRESS_TO_ONE_LINE_ITEM
        /\ s.STRIPE_USE_PRICES_API
        /\ ~s.STRIPE_ENABLE_TAX_COMPUTATION
        /\ ~s.STRIPE_ENABLE_INVOICE_GENERATION
        /\ s.STRIPE_ORDER_PREVIEW_URL = "" }

EventTypes == {"payment_intent.succeeded", "payment_intent.created"}

\* The webhook deliveries: one with a signature that does not verify, and
\* the verified events of each type, payment intent and metadata (basket 4
\* does not exist).
WebhookEvents ==
    { [signature |-> "forged", type |-> "payment_intent.succeeded", intent |-> 1,
       basket_id |-> 1, shipping_method |-> "no-shipping-required"] }
    \cup
    { [signature |-> "valid", type |-> t, intent |-> k, basket_id |-> b,
       shipping_method |-> c] :
      t \in EventTypes, k \in 1 .. MaxSessions, b \in BasketIds \cup {4},
      c \in {"no-shipping-required", "standard"} }

\* What the framework may do to an order placement that is attempted.
Hazards == {"ok", "unable", "error"}

\* Facade.construct_event: the provider's SDK verifies the signature.
construct_event_bad(event) == Ok(event)
construct_event(event) ==
    IF settings.STRIPE_WEBHOOK_ENDPOINT_SECRET = "" THEN Raise("TypeError", NoEvent)
    ELSE IF event.signature = "valid" THEN Ok(event)
    ELSE Raise("SignatureVerificationError", NoEvent)

\* The one event type the webhook reacts to.
reacts_to_bad(event_type) == event_type \in EventTypes
reacts_to(event_type) == event_type = "payment_intent.succeeded"

\* load_frozen_basket: the basket's id, or 0 (None) when no basket with
\* that id is FROZEN.  The user and the request do not enter the lookup.
load_frozen_basket_any(basket_id) ==
    IF basket_id \in BasketIds THEN basket_id ELSE 0
load_frozen_basket(basket_id) ==
    IF basket_id \in BasketIds /\ basket_status[basket_id] = "Frozen"
    THEN basket_id ELSE 0

\* ShippingRepository().get_shipping_methods(basket)
get_shipping_methods(b) ==
    IF FlowBasket(b).shipping_required THEN <<Standard>> ELSE <<NoShippingRequired>>

\* get_shipping_method_by_code: the first method with that code, or
\* NoMethod (None); the repository fails on a basket that is None.
get_shipping_method_by_code(code, b) ==
    IF b = 0 THEN Raise("AttributeError", NoMethod)
    ELSE LET methods == get_shipping_methods(b)
             hits == { i \in 1 .. Len(methods) : methods[i].code = code }
         IN  IF hits = {} THEN Ok(NoMethod)
             ELSE Ok(methods[CHOOSE i \in hits : \A j \in hits : i <= j])

NoTotal == [incl_tax |-> -1, currency |-> ""]

\* build_submission, as far as the payment mixins read it.
build_submission(b, shipping_method) ==
    IF b = 0 THEN Raise("AttributeError", [basket |-> 0, order_total |-> NoTotal])
    ELSE Ok([basket |-> b,
             shipping_method |-> shipping_method,
             order_total |->
                IF shipping_method = NoMethod THEN NoTotal
                ELSE get_order_totals(FlowBasket(b),
                        IF FlowBasket(b).shipping_required
                        THEN shipping_method.charge ELSE 0)])

PaymentSourceOf(order_total, payment_intent_id) ==
    [source_type |-> PAYMENT_METHOD_STRIPE,
     amount_allocated |-> order_total.incl_tax,
     amount_debited |-> order_total.incl_tax,
     currency |-> order_total.currency,
     reference |-> payment_intent_id]

PaymentEventOf_bad(order_total, payment_intent_id) ==
    [event_type |-> PAYMENT_EVENT_PURCHASE,
     amount |-> order_total.incl_tax,
     reference |-> 0]
PaymentEventOf(order_total, payment_intent_id) ==
    [event_type |-> PAYMENT_EVENT_PURCHASE,
     amount |-> order_total.incl_tax,
     reference |-> payment_intent_id]

\* add_payment_details on a request r: one source and one event are added
\* to the view's lists; an order total of None raises.
add_payment_details(r, order_total, payment_intent_id) ==
    IF order_total = NoTotal THEN Raise("AttributeError", r)
    ELSE Ok([r EXCEPT
                !.sources = Append(@, PaymentSourceOf(order_total, payment_intent_id)),
                !.events = Append(@, PaymentEventOf(order_total, payment_intent_id))])

\* OrderNumberGenerator.order_number
generate_order_number(b) == 100000 + b

NoRequest ==
    [n |-> 0, view |-> "", user |-> "", event |-> NoEvent, basket_id |-> 0,
     frozen |-> FALSE, pc |-> "", basket |-> 0, order_total |-> NoTotal,
     order_number |-> 0, sources |-> << >>, events |-> << >>]

\* The response to request r.
Response(r, status, error, placement) ==
    [NoResponse EXCEPT
        !.n = r.n, !.view = r.view, !.user = r.user, !.event = r.event,
        !.basket_id = r.basket_id, !.frozen = r.frozen, !.status = status,
        !.error = error, !.sources = r.sources, !.events = r.events,
        !.placement = placement]

\* ---- handle_order_placement: place_order, save_payment_details,
\* basket.submit().  It fails when the framework cannot place the order
\* or an order with the number exists.
PlacementOutcome_bad(r, hazard) == hazard
PlacementOutcome(r, hazard) ==
    IF hazard # "ok" THEN hazard
    ELSE IF \E i \in 1 .. Len(orders) : orders[i].number = r.order_number
         THEN "error"
         ELSE "ok"

OrdersAfter(r, outcome) ==
    IF outcome = "ok"
    THEN Append(orders, [id |-> Len(orders) + 1, number |-> r.order_number,
                         basket_id |-> r.basket,
                         total_incl_tax |-> r.order_total.incl_tax])
    ELSE orders

SourcesAfter(r, outcome) ==
    IF outcome = "ok"
    THEN payment_sources \o
         [k \in 1 .. Len(r.sources) |->
            [order_id |-> Len(orders) + 1, source |-> r.sources[k]]]
    ELSE payment_sources

\* The PaymentEvent table is held in the order its querysets have: the
\* most recent event first.
EventsAfter(r, outcome) ==
    IF outcome = "ok"
    THEN [k \in 1 .. Len(r.events) |->
            [order_id |-> Len(orders) + 1,
             event_type |-> r.events[Len(r.events) + 1 - k].event_type,
             amount |-> r.events[Len(r.events) + 1 - k].amount,
             reference |-> r.events[Len(r.events) + 1 - k].reference]]
         \o payment_events
    ELSE payment_events

handle_order_placement(r, outcome) ==
    /\ orders' = OrdersAfter(r, outcome)
    /\ payment_sources' = SourcesAfter(r, outcome)
    /\ payment_events' = EventsAfter(r, outcome)

\* ---- StripeSCACheckoutView.get: create the checkout session
ContextShippingMethod(b) ==
    IF FlowBasket(b).shipping_required THEN Standard ELSE NoShippingRequired

\* Facade.create_checkout_session from the built parameters on: whether it
\* froze the basket, whether it called the provider's session create, and
\* the exception it ends with.
create_checkout_session_bad(built, provider_ok) ==
    IF built.error # ""
    THEN [error |-> built.error, froze |-> TRUE, provider_called |-> FALSE]
    ELSE IF ~provider_ok
    THEN [error |-> "StripeError", froze |-> TRUE, provider_called |-> TRUE]
    ELSE [error |-> "", froze |-> TRUE, provider_called |-> TRUE]
create_checkout_session(built, provider_ok) ==
    IF built.error # ""
    THEN [error |-> built.error, froze |-> FALSE, provider_called |-> FALSE]
    ELSE IF ~provider_ok
    THEN [error |-> "StripeError", froze |-> TRUE, provider_called |-> TRUE]
    ELSE [error |-> "", froze |-> TRUE, provider_called |-> TRUE]

CheckoutGet(u, provider_ok) ==
    /\ nreq < MaxRequests
    /\ \E b \in BasketIds :
        /\ FlowBasket(b).owner = u
        /\ basket_status[b] = "Open"
        /\ LET basket == FlowBasket(b)
               shipping_method == ContextShippingMethod(b)
               order_total == get_order_totals(basket,
                                IF basket.shipping_required THEN shipping_method.charge ELSE 0)
               built == session_params_of(NewFacade, basket, order_total,
                                          shipping_method, u)
               r == [NoRequest EXCEPT !.n = nreq + 1, !.view = "checkout",
                                      !.user = u, !.basket_id = b]
               id == Len(stripe_sessions) + 1
               created == create_checkout_session(built,
                                provider_ok /\ id <= MaxSessions)
           IN  /\ basket_status' =
                     IF created.froze THEN [basket_status EXCEPT ![b] = "Frozen"]
                     ELSE basket_status
               /\ IF created.error = ""
                  THEN /\ stripe_sessions' = Append(stripe_sessions,
                               [id |-> id, payment_intent |-> id,
                                capture_method |->
                                   built.value.payment_intent_data.capture_method,
                                success_url |-> built.value.success_url,
                                metadata |-> built.value.metadata])
                       /\ intents' = Append(intents, "requires_payment_method")
                       /\ session' = [session EXCEPT ![u].stripe_session_id = id]
                       /\ last' = [Response(r, 200, "", "none") EXCEPT
                                       !.provider_called = created.provider_called]
                       /\ UNCHANGED captures
                  ELSE /\ last' = [Response(r, 500, created.error, "none") EXCEPT
                                       !.provider_called = created.provider_called]
                       /\ UNCHANGED <<stripeVars, session>>
    /\ nreq' = nreq + 1
    /\ UNCHANGED <<facadeVars, orders, payment_sources, payment_events, inflight>>

\* ---- the provider: the customer pays on the hosted page.  An intent with
\* capture_method "automatic" is captured by the provider at once.
CustomerPays(k) ==
    /\ k \in 1 .. Len(stripe_sessions)
    /\ intents[k] = "requires_payment_method"
    /\ IF stripe_sessions[k].capture_method = CAPTURE_METHOD_MANUAL
       THEN /\ intents' = [intents EXCEPT ![k] = "requires_capture"]
            /\ UNCHANGED captures
       ELSE /\ intents' = [intents EXCEPT ![k] = "succeeded"]
            /\ captures' = Append(captures, [intent |-> k, by |-> "provider", n |-> 0])
    /\ UNCHANGED <<facadeVars, dbVars, stripe_sessions, session, inflight, last, nreq>>

\* ---- StripeSCAWebhookView.post, up to the call of submit
WebhookPost(event) ==
    /\ nreq < MaxRequests
    /\ nreq' = nreq + 1
    /\ LET r0 == [NoRequest EXCEPT !.n = nreq + 1, !.view = "webhook",
                                   !.event = event, !.basket_id = event.basket_id,
                                   !.frozen = (load_frozen_basket(event.basket_id) # 0)]
           constructed == construct_event(event)
           basket == load_frozen_basket(event.basket_id)
           shipping_method == get_shipping_method_by_code(event.shipping_method, basket)
           submission == build_submission(basket, shipping_method.value)
           paid == add_payment_details(r0, submission.value.order_total, event.intent)
       IN  IF constructed.error = "SignatureVerificationError"
           THEN last' = Response(r0, 400, "", "none") /\ UNCHANGED inflight
           ELSE IF constructed.error # ""
           THEN last' = Response(r0, 500, constructed.error, "none") /\ UNCHANGED inflight
           ELSE IF ~reacts_to(constructed.value.type)
           THEN last' = Response(r0, 200, "", "none") /\ UNCHANGED inflight
           ELSE IF shipping_method.error # ""
           THEN last' = Response(r0, 500, shipping_method.error, "none") /\ UNCHANGED inflight
           ELSE IF submission.error # ""
           THEN last' = Response(r0, 500, submission.error, "none") /\ UNCHANGED inflight
           ELSE IF paid.error # ""
           THEN last' = Response(r0, 500, paid.error, "none") /\ UNCHANGED inflight
           ELSE /\ Cardinality(inflight) < MaxInflight
                /\ inflight' = inflight \cup
                      { [paid.value EXCEPT
                            !.pc = "place", !.basket = basket,
                            !.order_total = submission.value.order_total,
                            !.order_number = generate_order_number(basket)] }
                /\ UNCHANGED last
    /\ UNCHANGED <<facadeVars, dbVars, stripeVars, session>>

\* ---- OneStepPaymentMixin.submit: what it returns when the order placement
\* had that outcome.  Both except clauses log and fall through.
submit_bad(r, outcome) ==
    IF outcome = "ok" THEN Ok(r.order_number) ELSE Raise(outcome, 0)
submit(r, outcome) == Ok(r.order_number)

\* ---- StripeSCAWebhookView.post from the call of submit on
WebhookSubmit(r, hazard) ==
    /\ r \in inflight
    /\ r.view = "webhook"
    /\ r.pc = "place"
    /\ LET outcome == PlacementOutcome(r, hazard)
       IN  /\ handle_order_placement(r, outcome)
           /\ basket_status' =
                 IF outcome = "ok"
                 THEN [basket_status EXCEPT ![r.basket] = "Submitted"]
                 ELSE basket_status
           /\ last' = IF submit(r, outcome).error = ""
                      THEN Response(r, 200, "", outcome)
                      ELSE Response(r, 500, submit(r, outcome).error, outcome)
    /\ inflight' = inflight \ {r}
    /\ UNCHANGED <<facadeVars, stripeVars, session, nreq>>

\* ---- StripeSCAPreviewView.post: load the basket, then submit it
PreviewPost(u, basket_id) ==
    /\ nreq < MaxRequests
    /\ nreq' = nreq + 1
    /\ LET basket == load_frozen_basket(basket_id)
           r == [NoRequest EXCEPT !.n = nreq + 1, !.view = "preview", !.user = u,
                                  !.basket_id = basket_id, !.frozen = (basket # 0)]
           submission == build_submission(basket, ContextShippingMethod(basket))
       IN  IF basket = 0
           THEN /\ last' = [Response(r, 302, "", "none") EXCEPT
                                !.location = reverse("basket:summary")]
                /\ UNCHANGED inflight
           ELSE /\ Cardinality(inflight) < MaxInflight
                /\ inflight' = inflight \cup
                      { [r EXCEPT !.pc = "pay", !.basket = basket,
                                  !.order_total = submission.value.order_total,
                                  !.order_number = generate_order_number(basket)] }
                /\ UNCHANGED last
    /\ UNCHANGED <<facadeVars, dbVars, stripeVars, session>>

\* The framework's submit() up to the order placement: it freezes the
\* basket and calls TwoStepPaymentMixin.handle_payment, which captures the
\* payment intent of the session's checkout session.  Any exception thaws
\* the basket and shows the preview again.
PreviewHandlePayment(r, provider_ok) ==
    /\ r \in inflight
    /\ r.view = "preview"
    /\ r.pc = "pay"
    /\ LET checkout_session_id == session[r.user].stripe_session_id
           payment_intent_id ==
               IF checkout_session_id = 0 THEN 0
               ELSE stripe_sessions[checkout_session_id].payment_intent
           paid == add_payment_details(r, r.order_total, payment_intent_id)
       IN  IF checkout_session_id = 0
           THEN /\ basket_status' = [basket_status EXCEPT ![r.basket] = "Open"]
                /\ last' = Response(r, 200, "KeyError", "none")
                /\ inflight' = inflight \ {r}
                /\ UNCHANGED <<stripeVars, session>>
           ELSE IF ~provider_ok \/ intents[payment_intent_id] # "requires_capture"
           THEN /\ basket_status' = [basket_status EXCEPT ![r.basket] = "Open"]
                /\ last' = Response(r, 200, "StripeError", "none")
                /\ inflight' = inflight \ {r}
                /\ UNCHANGED <<stripeVars, session>>
           ELSE /\ basket_status' = [basket_status EXCEPT ![r.basket] = "Frozen"]
                /\ intents' = [intents EXCEPT ![payment_intent_id] = "succeeded"]
                /\ captures' = Append(captures,
                        [intent |-> payment_intent_id, by |-> "handle_payment", n |-> r.n])
                /\ session' = [session EXCEPT ![r.user].stripe_session_id = 0]
                /\ inflight' = (inflight \ {r}) \cup {[paid.value EXCEPT !.pc = "place"]}
                /\ UNCHANGED <<stripe_sessions, last>>
    /\ UNCHANGED <<facadeVars, orders, payment_sources, payment_events, nreq>>

\* The framework's submit() from the order placement on: a failure thaws
\* the basket and shows the preview again.
PreviewPlaceOrder(r, hazard) ==
    /\ r \in inflight
    /\ r.view = "preview"
    /\ r.pc = "place"
    /\ LET outcome == PlacementOutcome(r, hazard)
       IN  /\ handle_order_placement(r, outcome)
           /\ IF outcome = "ok"
              THEN /\ basket_status' = [basket_status EXCEPT ![r.basket] = "Submitted"]
                   /\ session' = [session EXCEPT
                                    ![r.user].checkout_order_id = Len(orders) + 1]
                   /\ last' = Response(r, 302, "", outcome)
              ELSE /\ basket_status' = [basket_status EXCEPT ![r.basket] = "Open"]
                   /\ last' = Response(r, 200, "", outcome)
                   /\ UNCHANGED session
    /\ inflight' = inflight \ {r}
    /\ UNCHANGED <<facadeVars, stripeVars, nreq>>

\* ---- StripeSCACancelView.get
\* "if basket: basket.thaw()": the baskets' statuses afterwards.
thaw_if_loaded_bad(basket) == basket_status
thaw_if_loaded(basket) ==
    IF basket # 0 THEN [basket_status EXCEPT ![basket] = "Open"]
    ELSE basket_status

CancelGet(u, basket_id) ==
    /\ nreq < MaxRequests
    /\ nreq' = nreq + 1
    /\ LET basket == load_frozen_basket(basket_id)
           r == [NoRequest EXCEPT !.n = nreq + 1, !.view = "cancel", !.user = u,
                                  !.basket_id = basket_id, !.frozen = (basket # 0)]
       IN  /\ basket_status' = thaw_if_loaded(basket)
           /\ last' = [Response(r, 302, "Stripe transaction cancelled", "none") EXCEPT
                           !.location = reverse("basket:summary")]
    /\ UNCHANGED <<facadeVars, orders, payment_sources, payment_events, stripeVars,
                   session, inflight>>

\* ---- StripeSCAPaymentStatusView
\* PaymentEvent.objects.filter(event_type__name=..., reference=...): the
\* places in the table of the events that match, in queryset order.
PurchaseEvents(payment_intent_id) ==
    SelectSeq([k \in 1 .. Len(payment_events) |-> k],
              LAMBDA k : /\ payment_events[k].event_type = PAYMENT_EVENT_PURCHASE
                         /\ payment_events[k].reference = payment_intent_id)

RECURSIVE SumAmounts(_, _)
SumAmounts(places, i) ==
    IF i > Len(places) THEN 0
    ELSE payment_events[places[i]].amount + SumAmounts(places, i + 1)

OrderById(id) == orders[CHOOSE i \in 1 .. Len(orders) : orders[i].id = id]

_check_payment_status_bad(payment_intent_id) ==
    LET found == PurchaseEvents(payment_intent_id)
    IN  IF Len(found) = 0
        THEN [is_successful |-> FALSE, order_id |-> -1]
        ELSE [is_successful |-> TRUE,
              order_id |-> payment_events[found[1]].order_id]
_check_payment_status(payment_intent_id) ==
    LET found == PurchaseEvents(payment_intent_id)
    IN  IF Len(found) = 0
        THEN [is_successful |-> FALSE, order_id |-> -1]
        ELSE LET order == OrderById(payment_events[found[1]].order_id)
                 requested_amount == order.total_incl_tax
                 received_amount == SumAmounts(found, 1)
             IN  [is_successful |-> requested_amount = received_amount,
                  order_id |-> order.id]

PaymentStatusGet(u) ==
    /\ nreq < MaxRequests
    /\ nreq' = nreq + 1
    /\ LET checkout_session_id == session[u].stripe_session_id
           r == [NoRequest EXCEPT !.n = nreq + 1, !.view = "payment-status", !.user = u]
       IN  IF checkout_session_id = 0
           THEN last' = Response(r, 500, "KeyError", "none") /\ UNCHANGED session
           ELSE LET payment_intent_id == stripe_sessions[checkout_session_id].payment_intent
                    checked == _check_payment_status(payment_intent_id)
                IN  /\ session' =
                          IF checked.is_successful
                          THEN [session EXCEPT ![u].checkout_order_id = checked.order_id]
                          ELSE session
                    /\ last' = [Response(r, 200, "", "none") EXCEPT
                                    !.payment_intent_id = payment_intent_id,
                                    !.is_successful = checked.is_successful,
                                    !.order_id = checked.order_id]
    /\ UNCHANGED <<facadeVars, dbVars, stripeVars, inflight>>

\* ---- StripeSCAZeroView
\* is_payment_required: the order total is not zero (the model's prices
\* carry no tax, so excl_tax is incl_tax).
is_payment_required(b) ==
    LET basket == FlowBasket(b)
        shipping_method == ContextShippingMethod(b)
        total == get_order_totals(basket,
                    IF basket.shipping_required THEN shipping_method.charge ELSE 0)
    IN  total.incl_tax # 0

is_shipping_required(b) == FlowBasket(b).shipping_required

_should_fulfill_order(b) == ~is_payment_required(b) /\ ~is_shipping_required(b)

\* StripeSCAZeroView.post on the user's open basket (request.basket):
\* _fulfill_order submits it without a payment intent.
ZeroPost(u, hazard) ==
    /\ nreq < MaxRequests
    /\ nreq' = nreq + 1
    /\ \E b \in BasketIds :
        /\ FlowBasket(b).owner = u
        /\ basket_status[b] = "Open"
        /\ LET r0 == [NoRequest EXCEPT !.n = nreq + 1, !.view = "zero", !.user = u,
                                       !.basket_id = b]
               shipping_method ==
                   get_shipping_method_by_code(NoShippingRequired.code, b).value
               submission == build_submission(b, shipping_method)
               r == [r0 EXCEPT !.basket = b,
                               !.order_total = submission.value.order_total,
                               !.order_number = generate_order_number(b)]
               outcome == PlacementOutcome(r, hazard)
               order_number == submit(r, outcome)
           IN  IF ~_should_fulfill_order(b)
               THEN /\ last' = [Response(r0, 302, "", "none") EXCEPT
                                    !.location = reverse("checkout:index")]
                    /\ UNCHANGED <<dbVars, session>>
               ELSE /\ handle_order_placement(r, outcome)
                    /\ basket_status' =
                          IF outcome = "ok"
                          THEN [basket_status EXCEPT ![b] = "Submitted"]
                          ELSE basket_status
                    /\ IF order_number.error # ""
                       THEN /\ last' = Response(r, 500, order_number.error, outcome)
                            /\ UNCHANGED session
                       ELSE /\ session' =
                                 [session EXCEPT
                                    ![u].checkout_order_number = order_number.value,
                                    ![u].checkout_order_id =
                                        IF outcome = "ok" THEN Len(orders) + 1 ELSE @]
                            /\ last' = [Response(r, 302, "", outcome) EXCEPT
                                            !.location = _get_order_confirmation_url]
    /\ UNCHANGED <<facadeVars, stripeVars, inflight>>

FlowInitAll ==
    /\ settings \in FlowSettings
    /\ facade = NewFacade
    /\ args = [basket |-> 0]
    /\ returned = << >>
    /\ ncalls = 0
    /\ app_config = ready
    /\ FlowInit

Next ==
    \/ \E u \in Users, ok \in BOOLEAN : CheckoutGet(u, ok)
    \/ \E k \in 1 .. MaxSessions : CustomerPays(k)
    \/ \E e \in WebhookEvents : WebhookPost(e)
    \/ \E r \in inflight, h \in Hazards : WebhookSubmit(r, h)
    \/ \E u \in Users, b \in BasketIds : PreviewPost(u, b)
    \/ \E r \in inflight, ok \in BOOLEAN : PreviewHandlePayment(r, ok)
    \/ \E r \in inflight, h \in Hazards : PreviewPlaceOrder(r, h)
    \/ \E u \in Users, b \in BasketIds \cup {4} : CancelGet(u, b)
    \/ \E u \in Users : PaymentStatusGet(u)
    \/ \E u \in AllUsers, h \in Hazards : ZeroPost(u, h)

Spec == FlowInitAll /\ [][Next]_vars

\* ---- the payment status view on every table of payment events
StatusOrders ==
    << [id |-> 1, number |-> 100001, basket_id |-> 1, total_incl_tax |-> 1005],
       [id |-> 2, number |-> 100002, basket_id |-> 2, total_incl_tax |-> 6995] >>

EventRows ==
    [order_id : {1, 2}, event_type : {PAYMENT_EVENT_PURCHASE, "Refund"},
     amount : {1005, 500, 505}, reference : 1 .. 2]

StatusSession(id) ==
    [id |-> id, payment_intent |-> id, capture_method |-> CAPTURE_METHOD_AUTOMATIC,
     success_url |-> [base |-> "https://shop.example", route |-> "checkout:stripe-waiting",
                      basket_id |-> 0],
     metadata |-> [scs |-> "oscar", basket_id |-> id,
                   shipping_method |-> "no-shipping-required", discounts |-> << >>]]

InitStatus ==
    /\ settings = DefaultSettings
    /\ facade = NewFacade
    /\ args = [basket |-> 0]
    /\ returned = << >>
    /\ ncalls = 0
    /\ app_config = ready
    /\ basket_status = [b \in BasketIds |-> "Submitted"]
    /\ stripe_sessions = << StatusSession(1), StatusSession(2) >>
    /\ intents = << "succeeded", "succeeded" >>
    /\ captures = << >>
    /\ \E k \in 0 .. 2 :
          session = [u \in AllUsers |-> [stripe_session_id |-> IF u = "ada" THEN k ELSE 0,
                                         checkout_order_id |-> 0,
                                         checkout_order_number |-> 0]]
    /\ orders = StatusOrders
    /\ payment_sources = << >>
    /\ payment_events \in UNION { [1 .. n -> EventRows] : n \in 0 .. MaxEvents }
    /\ inflight = {}
    /\ last = NoResponse
    /\ nreq = 0

NextStatus == \E u \in Users : PaymentStatusGet(u)

SpecStatus == InitStatus /\ [][NextStatus]_vars

\* ---- the URL patterns of the app config
ResolveUrl(name) ==
    /\ ncalls < MaxCalls
    /\ returned' = Append(returned, resolve(name))
    /\ ncalls' = ncalls + 1
    /\ UNCHANGED <<settings, facade, args, app_config, flowVars>>

NextUrls == \E name \in RouteNames : ResolveUrl(name)

SpecUrls == FlowInitAll /\ [][NextUrls]_vars

\* ---- _convert_to_cents on every price and currency code
InitConvert ==
    /\ settings = DefaultSettings
    /\ facade = NewFacade
    /\ args \in [price : Prices, currency : CurrencyCodes]
    /\ returned = << >>
    /\ ncalls = 0
    /\ app_config = ready
    /\ FlowInit

ConvertToCents ==
    /\ ncalls < MaxCalls
    /\ returned' = Append(returned, _convert_to_cents(args.price, args.currency))
    /\ ncalls' = ncalls + 1
    /\ UNCHANGED <<settings, facade, args, app_config, flowVars>>

NextConvert == ConvertToCents

SpecConvert == InitConvert /\ [][NextConvert]_vars

\* ---- _choose_tax_code and prepare_line_items on lists of raw line items
RawItemPool ==
    { PaymentItem(t, IF t = "Book" THEN 1005 ELSE 2500, "USD",
                  IF t = "Book" THEN 1 ELSE 2, c) :
      t \in {"Book", "Pen"}, c \in {"", "txcd_10000000", "txcd_99999999"} }

RawItemLists == UNION { [1 .. n -> RawItemPool] : n \in 0 .. MaxLines }

OrderTotals ==
    { [incl_tax |-> 6005, currency |-> "USD"],
      [incl_tax |-> 150500, currency |-> "JPY"] }

PrepareSettings ==
    { s \in SettingsSpace :
        /\ ~s.STRIPE_BYPASS_ORDER_PREVIEW
        /\ ~s.STRIPE_WAIT_FOR_PAYMENT_CONFIRMATION
        /\ ~s.STRIPE_ENABLE_INVOICE_GENERATION
        /\ s.STRIPE_ORDER_PREVIEW_URL = "" }

InitPrepare ==
    /\ settings \in PrepareSettings
    /\ facade = NewFacade
    /\ args \in [raw_line_items : RawItemLists, order_total : OrderTotals]
    /\ returned = << >>
    /\ ncalls = 0
    /\ app_config = ready
    /\ FlowInit

ChooseTaxCode ==
    /\ ncalls < MaxCalls
    /\ returned' = Append(returned,
            [op |-> "_choose_tax_code",
             result |-> _choose_tax_code(args.raw_line_items)])
    /\ ncalls' = ncalls + 1
    /\ UNCHANGED <<settings, facade, args, app_config, flowVars>>

PrepareLineItems ==
    /\ ncalls < MaxCalls
    /\ returned' = Append(returned,
            [op |-> "prepare_line_items",
             result |-> prepare_line_items(args.raw_line_items, args.order_total)])
    /\ ncalls' = ncalls + 1
    /\ UNCHANGED <<settings, facade, args, app_config, flowVars>>

NextPrepare == ChooseTaxCode \/ PrepareLineItems

SpecPrepare == InitPrepare /\ [][NextPrepare]_vars

\* ---- the session parameters of create_checkout_session
SessionArgs ==
    { [basket |-> b,
       order_total |-> get_order_totals(b, IF b.shipping_required THEN m.charge ELSE 0),
       shipping_method |-> m,
       customer_email |-> "ada@example.org"] :
      b \in FacadeBaskets, m \in ShippingMethods \cup {NoMethod} }

\* Other baskets the same facade is called with in between.
OtherArgs ==
    { a \in SessionArgs :
        /\ a.basket.id = 1 /\ a.basket.currency = "USD"
        /\ Len(a.basket.lines) = 1
        /\ a.shipping_method.code = "standard" }

InitSession ==
    /\ settings \in SettingsSpace
    /\ facade = NewFacade
    /\ args \in SessionArgs
    /\ returned = << >>
    /\ ncalls = 0
    /\ app_config = ready
    /\ FlowInit

\* The call under study: create_checkout_session up to the provider call.
BuildSessionParams ==
    /\ ncalls < MaxCalls
    /\ returned' = Append(returned,
            session_params_of(facade, args.basket, args.order_total,
                              args.shipping_method, args.customer_email))
    /\ facade' = facade_after(facade, args.basket, args.shipping_method)
    /\ ncalls' = ncalls + 1
    /\ UNCHANGED <<settings, args, app_config, flowVars>>

\* A call of the same facade with other arguments.
OtherSessionCall ==
    /\ ncalls < MaxCalls
    /\ \E a \in OtherArgs :
          facade' = facade_after(facade, a.basket, a.shipping_method)
    /\ ncalls' = ncalls + 1
    /\ UNCHANGED <<settings, args, returned, app_config, flowVars>>

NextSession == BuildSessionParams \/ OtherSessionCall

SpecSession == InitSession /\ [][NextSession]_vars

\* ======================================================== flow properties
\* The step answers a webhook delivery.
AnswersWebhook == last'.n # last.n /\ last'.view = "webhook"

\* C1: a webhook delivery whose signature does not verify is answered with
\* status 400 and nothing else happens: no basket is loaded, no payment
\* source or payment event is recorded, no order placement is attempted.
C1_UnverifiedWebhookIsRejected ==
    [][ (AnswersWebhook /\ last'.event.signature # "valid") =>
            /\ last'.status = 400
            /\ last'.sources = << >>
            /\ last'.events = << >>
            /\ last'.placement = "none"
            /\ UNCHANGED <<dbVars, stripeVars, session, inflight>> ]_vars

\* A forged delivery that names a frozen basket was answered with 400.
C1_Witness ==
    /\ last.view = "webhook"
    /\ last.event.signature = "forged"
    /\ last.frozen
    /\ last.status = 400

\* C2: a verified event of any type other than "payment_intent.succeeded"
\* leaves baskets, orders, payment sources and payment events unchanged and
\* is answered with status 200.
C2_OtherEventTypesChangeNothing ==
    [][ ( /\ AnswersWebhook
          /\ last'.event.signature = "valid"
          /\ last'.event.type # "payment_intent.succeeded" ) =>
            /\ last'.status = 200
            /\ last'.sources = << >>
            /\ last'.events = << >>
            /\ last'.placement = "none"
            /\ UNCHANGED <<dbVars, inflight>> ]_vars

C2_Witness ==
    /\ last.view = "webhook"
    /\ last.event.signature = "valid"
    /\ last.event.type = "payment_intent.created"
    /\ last.frozen
    /\ last.status = 200

\* The code is the code of one of the basket's shipping methods.
MatchesShippingMethod(code, b) ==
    \E i \in 1 .. Len(get_shipping_methods(b)) : get_shipping_methods(b)[i].code = code

\* C3: a verified "payment_intent.succeeded" event that names a FROZEN
\* basket and one of its shipping methods makes the webhook record one
\* payment source and one Purchase payment event, both with the event's
\* payment intent id as reference and the order total including tax as
\* amount, attempt the order placement for that basket, and answer 200.
C3_WebhookCapturesOnSucceeded ==
    [][ ( /\ AnswersWebhook
          /\ last'.event.signature = "valid"
          /\ last'.event.type = "payment_intent.succeeded"
          /\ last'.frozen
          /\ MatchesShippingMethod(last'.event.shipping_method, last'.event.basket_id) ) =>
            LET b == last'.event.basket_id
                total == BasketTotal(FlowBasket(b), 1)
            IN  /\ last'.status = 200
                /\ Len(last'.sources) = 1
                /\ last'.sources[1].reference = last'.event.intent
                /\ last'.sources[1].amount_allocated = total
                /\ Len(last'.events) = 1
                /\ last'.events[1].event_type = "Purchase"
                /\ last'.events[1].reference = last'.event.intent
                /\ last'.events[1].amount = total
                /\ last'.placement # "none"
                /\ last'.placement = "ok" =>
                      /\ orders'[Len(orders')].basket_id = b
                      /\ orders'[Len(orders')].total_incl_tax = total
                      /\ payment_events'[1].reference = last'.event.intent
                      /\ payment_events'[1].order_id = orders'[Len(orders')].id ]_vars

C3_Witness ==
    /\ last.view = "webhook"
    /\ last.event.type = "payment_intent.succeeded"
    /\ last.status = 200
    /\ last.placement = "ok"
    /\ Len(orders) = 1
    /\ Len(payment_events) = 1
    /\ payment_events[1].amount = 1005

\* C4: with STRIPE_BYPASS_ORDER_PREVIEW off every checkout session is
\* created with capture_method "manual", and a payment intent is captured
\* only by handle_payment, in a POST to the preview view, and only when its
\* checkout session had been created before.
C4_CaptureOnlyOnConfirmation ==
    [][ ~settings.STRIPE_BYPASS_ORDER_PREVIEW =>
            /\ \A k \in 1 .. Len(stripe_sessions') :
                  stripe_sessions'[k].capture_method = "manual"
            /\ \A i \in 1 .. Len(captures') :
                  i > Len(captures) =>
                    /\ captures'[i].by = "handle_payment"
                    /\ captures'[i].intent \in 1 .. Len(stripe_sessions)
                    /\ \E r \in inflight :
                          /\ r.view = "preview"
                          /\ r.n = captures'[i].n
                          /\ r \notin inflight' ]_vars

C4_Witness ==
    /\ ~settings.STRIPE_BYPASS_ORDER_PREVIEW
    /\ Len(captures) = 1
    /\ captures[1].by = "handle_payment"
    /\ intents[captures[1].intent] = "succeeded"

\* The view each provider-specific route is meant to serve.
StripeViewOf(name) ==
    CASE name = "zero" -> "StripeSCAZeroView"
      [] name = "payment-method" -> "StripeSCACheckoutView"
      [] name = "payment-details" -> "StripeSCACheckoutView"
      [] name = "cancel" -> "StripeSCACancelView"
      [] name = "preview" -> "StripeSCAPreviewView"
      [] name = "stripe-webhook" -> "StripeSCAWebhookView"
      [] name = "waiting" -> "StripeSCAWaitingView"
      [] name = "payment-status" -> "StripeSCAPaymentStatusView"
      [] name = "thank-you" -> "StripeSCAThankYouView"
      [] OTHER -> ""

\* C7: each of the routes zero, payment-method, payment-details, cancel,
\* preview, stripe-webhook, waiting, payment-status and thank-you is served
\* by the StripeSCA view that ready() assigned for it.
C7_RoutesServeStripeViews ==
    \A k \in 1 .. Len(returned) :
        StripeViewOf(returned[k].name) # "" =>
            returned[k].view = StripeViewOf(returned[k].name)

\* The Purchase events with that reference, as places in the table.
PurchasePlaces(reference) ==
    { k \in 1 .. Len(payment_events) :
        /\ payment_events[k].event_type = "Purchase"
        /\ payment_events[k].reference = reference }

RECURSIVE AmountOfPlaces(_)
AmountOfPlaces(places) ==
    IF places = {} THEN 0
    ELSE LET k == CHOOSE x \in places : TRUE
         IN  payment_events[k].amount + AmountOfPlaces(places \ {k})

\* C8: _check_payment_status(P) returns (False, -1) when no Purchase event
\* has reference P; otherwise the id of the order of the first such event,
\* and is_successful exactly when the amounts of all Purchase events with
\* reference P add up to that order's total including tax.  The GET handler
\* writes checkout_order_id into the session only when is_successful.
C8_PaymentStatusFollowsReference ==
    [][ ( /\ last'.n # last.n
          /\ last'.view = "payment-status"
          /\ last'.status = 200 ) =>
            LET places == PurchasePlaces(last'.payment_intent_id)
                first == CHOOSE k \in places : \A j \in places : k <= j
                order_id == payment_events[first].order_id
                u == last'.user
            IN  /\ places = {} => ~last'.is_successful /\ last'.order_id = -1
                /\ places # {} =>
                      /\ last'.order_id = order_id
                      /\ last'.is_successful <=>
                            \E i \in 1 .. Len(orders) :
                                /\ orders[i].id = order_id
                                /\ orders[i].total_incl_tax = AmountOfPlaces(places)
                /\ ~last'.is_successful => session' = session
                /\ last'.is_successful =>
                      session' = [session EXCEPT ![u].checkout_order_id = last'.order_id] ]_vars

\* Two Purchase events with the reference add up to the order's total.
C8_Witness ==
    /\ last.view = "payment-status"
    /\ last.is_successful
    /\ Cardinality(PurchasePlaces(last.payment_intent_id)) = 2
    /\ session[last.user].checkout_order_id = last.order_id

\* The orders placed for basket b, as places in the Order table.
OrdersOfBasket(b) == { i \in 1 .. Len(orders) : orders[i].basket_id = b }

\* The payment sources recorded for basket b's orders.
SourcesOfBasket(b) ==
    { k \in 1 .. Len(payment_sources) :
        \E i \in OrdersOfBasket(b) : orders[i].id = payment_sources[k].order_id }

C12_SubmitSwallowsPlacementFailure ==
    [][ /\ ( AnswersWebhook /\ last'.placement # "none" ) => last'.status = 200
        /\ ( /\ last'.n # last.n
             /\ last'.view = "zero"
             /\ _should_fulfill_order(last'.basket_id) ) =>
                /\ last'.placement \in Hazards
                /\ last'.status = 302
                /\ last'.location = _get_order_confirmation_url
                /\ session'[last'.user].checkout_order_number =
                      generate_order_number(last'.basket_id)
                /\ last'.placement # "ok" => orders' = orders ]_vars

\* The zero view redirected to the confirmation page though the framework
\* could not place the order.
C12_Witness ==
    /\ last.view = "zero"
    /\ last.placement = "unable"
    /\ last.status = 302
    /\ last.location.route = "checkout:thank-you"
    /\ session["cy"].checkout_order_number = 100003
    /\ OrdersOfBasket(3) = {}

\* The step receives a verified "payment_intent.succeeded" delivery that
\* names basket b; r is the request as answered or as left in flight.
DeliversSucceeded(r, b) ==
    /\ nreq' = nreq + 1
    /\ r.n = nreq'
    /\ r.view = "webhook"
    /\ r.event.signature = "valid"
    /\ r.event.type = "payment_intent.succeeded"
    /\ r.event.basket_id = b

\* C13: a verified "payment_intent.succeeded" delivery that names a basket
\* which is not FROZEN when it arrives (its order was placed, or it was
\* thawed) never reaches the order placement: no order is placed and no
\* payment source or payment event is recorded.
C13_ReplayedWebhookIsHarmless ==
    [][ \A b \in BasketIds :
            basket_status[b] # "Frozen" =>
                /\ \A r \in inflight' : ~DeliversSucceeded(r, b)
                /\ DeliversSucceeded(last', b) =>
                      /\ last'.placement = "none"
                      /\ last'.sources = << >>
                      /\ last'.events = << >>
                      /\ UNCHANGED <<dbVars, inflight>> ]_vars

\* The order of basket 1 was placed, and the event was delivered again.
C13_Witness ==
    /\ basket_status[1] = "Submitted"
    /\ Cardinality(OrdersOfBasket(1)) = 1
    /\ last.view = "webhook"
    /\ last.n = nreq
    /\ last.event.signature = "valid"
    /\ last.event.type = "payment_intent.succeeded"
    /\ last.event.basket_id = 1
    /\ ~last.frozen
    /\ last.placement = "none"
    /\ inflight = {}

\* What building the session parameters for basket b gives: the parameters
\* or the exception.
BuiltFor(b, u) ==
    session_params_of(NewFacade, FlowBasket(b),
        get_order_totals(FlowBasket(b),
            IF FlowBasket(b).shipping_required THEN ContextShippingMethod(b).charge ELSE 0),
        ContextShippingMethod(b), u)

\* C14: create_checkout_session freezes the basket after the line items,
\* the metadata and the session parameters were built and before it calls
\* the provider: when building raises, the basket is not frozen and the
\* provider is not called; when the provider's create call raises, the
\* basket stays frozen, no session exists and the exception propagates.
C14_FreezesBetweenBuildAndCreate ==
    [][ ( last'.n # last.n /\ last'.view = "checkout" ) =>
            LET b == last'.basket_id
                built == BuiltFor(b, last'.user)
            IN  /\ built.error # "" =>
                      /\ basket_status' = basket_status
                      /\ ~last'.provider_called
                      /\ last'.error = built.error
                      /\ UNCHANGED <<stripeVars, session>>
                /\ built.error = "" =>
                      /\ basket_status'[b] = "Frozen"
                      /\ last'.provider_called
                      /\ last'.error # "" =>
                            /\ last'.error = "StripeError"
                            /\ UNCHANGED <<stripeVars, session>>
                      /\ last'.error = "" =>
                            /\ Len(stripe_sessions') = Len(stripe_sessions) + 1
                            /\ stripe_sessions'[Len(stripe_sessions')].metadata.basket_id = b ]_vars

\* The provider's create call failed for basket 1, which stays frozen, and
\* building failed for basket 2, which stays open.
C14_Witness ==
    /\ basket_status[1] = "Frozen"
    /\ basket_status[2] = "Open"
    /\ stripe_sessions = << >>
    /\ last.view = "checkout"
    /\ last.basket_id = 2
    /\ last.error = "AttributeError"
    /\ ~last.provider_called
    /\ nreq = 2

C16_ActsOnOwnBasketOnly ==
    [][ /\ ( /\ last'.n # last.n
             /\ last'.view = "cancel"
             /\ last'.basket_id \in BasketIds
             /\ FlowBasket(last'.basket_id).owner # last'.user ) =>
                basket_status' = basket_status
        /\ \A r \in inflight' :
              ( r.n = nreq' /\ nreq' # nreq /\ r.view = "preview" ) =>
                  FlowBasket(r.basket).owner = r.user
        /\ \A i \in 1 .. Len(captures') :
              ( i > Len(captures) /\ captures'[i].by = "handle_payment" ) =>
                  \E r \in inflight :
                      /\ r.n = captures'[i].n
                      /\ stripe_sessions[captures'[i].intent].metadata.basket_id = r.basket ]_vars

\* ====================================================== facade properties

\* The codes of CurrencyCodes that spell, in any case, a currency of
\* ZERO_DECIMAL_CURRENCIES.
SpellsZeroDecimal(c) == c \in {"JPY", "jpy", "Jpy", "KRW", "xpf"}

\* r steps of `step` mills is `mills` rounded half-up to a multiple of step.
IsHalfUpRounding(r, mills, step) ==
    /\ 2 * Abs(r * step - mills) <= step
    /\ (2 * Abs(r * step - mills) = step) => (r * step > mills)

\* C10: _convert_to_cents returns an integer: the price rounded half-up to a
\* whole number (not multiplied by 100) when the currency code, compared
\* case-insensitively, is a zero-decimal currency, and otherwise the price
\* rounded half-up to two decimals, times 100.
C10_ConvertToCentsRoundsHalfUp ==
    \A k \in 1 .. Len(returned) :
        /\ returned[k] \in Int
        /\ IF SpellsZeroDecimal(args.currency)
           THEN IsHalfUpRounding(returned[k], args.price, 1000)
           ELSE IsHalfUpRounding(returned[k], args.price, 10)

\* 1.5 yen is 2 and 1.005 dollars are 101 cents.
C10_Witness ==
    /\ Len(returned) >= 1
    /\ \/ args.currency = "jpy" /\ args.price = 1500 /\ returned[1] = 2
       \/ args.currency = "USD" /\ args.price = 1005 /\ returned[1] = 101

TaxCodesOf(items) == { items[k].tax_code : k \in 1 .. Len(items) }

\* C9: _choose_tax_code returns the default product tax code for an empty
\* list, the shared tax code when all items carry the same one, and raises
\* MultipleTaxCodesInBasketError when they carry two or more; in compressed
\* mode that error leaves prepare_line_items without any line item.
C9_RefusesToChooseAmongTaxCodes ==
    \A k \in 1 .. Len(returned) :
        LET r == returned[k].result
            items == args.raw_line_items
            distinct == Cardinality(TaxCodesOf(items))
        IN  /\ returned[k].op = "_choose_tax_code" =>
                /\ Len(items) = 0 =>
                      r.error = "" /\ r.value = settings.STRIPE_DEFAULT_PRODUCT_TAX_CODE
                /\ distinct = 1 =>
                      r.error = "" /\ \A i \in 1 .. Len(items) : items[i].tax_code = r.value
                /\ distinct >= 2 => r.error = "MultipleTaxCodesInBasketError"
            /\ ( returned[k].op = "prepare_line_items"
                 /\ settings.STRIPE_COMPRESS_TO_ONE_LINE_ITEM
                 /\ distinct >= 2 ) =>
                   r.error = "MultipleTaxCodesInBasketError" /\ r.value = << >>

C9_Witness ==
    /\ settings.STRIPE_COMPRESS_TO_ONE_LINE_ITEM
    /\ Cardinality(TaxCodesOf(args.raw_line_items)) = 2
    /\ Len(returned) = 2
    /\ returned[1].op = "_choose_tax_code"
    /\ returned[1].result.error = "MultipleTaxCodesInBasketError"
    /\ returned[2].op = "prepare_line_items"
    /\ returned[2].result.error = "MultipleTaxCodesInBasketError"

ItemCharge(item) ==
    IF "price_data" \in DOMAIN item
    THEN item.price_data.unit_amount * item.quantity
    ELSE item.amount * item.quantity

RECURSIVE SessionCharge(_, _)
SessionCharge(line_items, i) ==
    IF i > Len(line_items) THEN 0
    ELSE ItemCharge(line_items[i]) + SessionCharge(line_items, i + 1)

\* C17: the amount the provider is asked to charge is the order total: the
\* session line items built by get_raw_line_items and prepare_line_items
\* add up (amount times quantity) to _convert_to_cents of the order total,
\* which is also the payment source's amount_allocated, for every basket,
\* shipping method and setting of STRIPE_COMPRESS_TO_ONE_LINE_ITEM.
C17_ChargeEqualsOrderTotal ==
    \A k \in 1 .. Len(returned) :
        returned[k].error = "" =>
            /\ SessionCharge(returned[k].value.line_items, 1) =
                  _convert_to_cents(args.order_total.incl_tax, args.order_total.currency)
            /\ PaymentSourceOf(args.order_total, 1).amount_allocated =
                  args.order_total.incl_tax

\* The session line item names a tax code.
HasTaxCode(item) ==
    /\ "price_data" \in DOMAIN item
    /\ "tax_code" \in DOMAIN item.price_data.product_data

\* C18: with STRIPE_USE_PRICES_API and STRIPE_ENABLE_TAX_COMPUTATION both
\* on, every line item prepare_line_items makes from raw items that carry
\* a tax code has that code in price_data.product_data.tax_code, in
\* compressed mode and in per-line mode; with either setting off no line
\* item carries a tax code.
C18_LineItemsCarryTaxCode ==
    \A k \in 1 .. Len(returned) :
        ( returned[k].op = "prepare_line_items" /\ returned[k].result.error = "" ) =>
            LET items == returned[k].result.value
                raw == args.raw_line_items
                on == /\ settings.STRIPE_USE_PRICES_API
                      /\ settings.STRIPE_ENABLE_TAX_COMPUTATION
            IN  /\ ~on => \A i \in 1 .. Len(items) : ~HasTaxCode(items[i])
                /\ ( on /\ ~settings.STRIPE_COMPRESS_TO_ONE_LINE_ITEM ) =>
                      \A i \in 1 .. Len(raw) :
                          raw[i].tax_code # "" =>
                              /\ HasTaxCode(items[i])
                              /\ items[i].price_data.product_data.tax_code = raw[i].tax_code
                /\ ( on /\ settings.STRIPE_COMPRESS_TO_ONE_LINE_ITEM
                        /\ Len(raw) > 0 /\ raw[1].tax_code # "" ) =>
                      /\ HasTaxCode(items[1])
                      /\ items[1].price_data.product_data.tax_code = raw[1].tax_code

====
